---- MODULE Spec2Model ----
(***************************************************************************)
(* Model of the caption transformation engine of the caption dropout       *)
(* visualizer (src/src/utils/captionDropout.ts).                           *)
(*                                                                         *)
(* A JavaScript string is a sequence of one-character strings; the empty   *)
(* string is << >>.  A number in [0,1) returned by a random generator is a *)
(* numerator d in 0..RngRes-1 standing for d/RngRes, and a dropout rate is *)
(* a numerator r standing for r/RngRes (r >= RngRes is a rate >= 1).       *)
(***************************************************************************)
EXTENDS Integers, Sequences, FiniteSets, TLC

(***************************************************************************)
(* Bounds of the model.                                                    *)
(***************************************************************************)
\* longest caption of the exhaustively enumerated captions
MaxLen == 2
\* resolution of the random numbers: draws are k/RngRes, k in 0..RngRes-1
RngRes == 3
\* every word of MaxDraws successive draws occurs in the Math.random sequence
MaxDraws == 1

\* the hard cap of the step simulators
StepCap == 1000

(***************************************************************************)
(* JavaScript string primitives used by the engine.                        *)
(***************************************************************************)
\* the characters of the captions that are enumerated exhaustively
Alphabet == {"a", ",", "|"}

\* all characters that occur in a caption or a separator of the model
Chars == Alphabet \cup {" ", "b", "c", "d", "e", "f", "i", "x", "-", "."}

\* the white space String.prototype.trim removes
IsWhitespace(c) == c \in {" ", "\t", "\n"}

RECURSIVE trimStart(_)
trimStart(s) ==
  IF s = << >> THEN << >>
  ELSE IF IsWhitespace(Head(s)) THEN trimStart(Tail(s)) ELSE s

RECURSIVE trimEnd(_)
trimEnd(s) ==
  IF s = << >> THEN << >>
  ELSE IF IsWhitespace(s[Len(s)]) THEN trimEnd(SubSeq(s, 1, Len(s) - 1)) ELSE s

\* String.prototype.trim
trim(s) == trimEnd(trimStart(s))

\* s has the substring sub at (1-based) position p
MatchesAt(s, sub, p) ==
  /\ p >= 1
  /\ p + Len(sub) - 1 <= Len(s)
  /\ \A k \in 1..Len(sub) : s[p + k - 1] = sub[k]

\* the least element of a set of positions, 0 when there is none
least(S) == IF S = {} THEN 0 ELSE CHOOSE p \in S : \A q \in S : p <= q

\* String.prototype.indexOf from position from, 1-based; 0 when absent
indexOf(s, sub, from) ==
  least({p \in from..(Len(s) - Len(sub) + 1) : MatchesAt(s, sub, p)})

\* String.prototype.includes
includes(s, sub) == indexOf(s, sub, 1) # 0

RECURSIVE splitNonEmpty(_, _)
\* the pieces of s when the first occurrence of sep is at i (0: none)
splitAt(s, sep, i) ==
  IF i = 0 THEN << s >>
  ELSE << SubSeq(s, 1, i - 1) >> \o splitNonEmpty(SubSeq(s, i + Len(sep), Len(s)), sep)

splitNonEmpty(s, sep) == splitAt(s, sep, indexOf(s, sep, 1))

\* String.prototype.split with a string separator: leftmost non-overlapping
\* occurrences; an empty separator splits into single characters
split(s, sep) ==
  IF sep = << >> THEN [i \in 1..Len(s) |-> << s[i] >>]
  ELSE splitNonEmpty(s, sep)

RECURSIVE join(_, _)
\* Array.prototype.join
join(arr, sep) ==
  IF arr = << >> THEN << >>
  ELSE IF Len(arr) = 1 THEN arr[1]
  ELSE arr[1] \o sep \o join(Tail(arr), sep)

\* only the first token is split
flatSplitFirst(tokens, sep) ==
  IF tokens = << >> THEN << >> ELSE split(Head(tokens), sep) \o Tail(tokens)

RECURSIVE flatSplit(_, _)
\* for (const token of tokens) newTokens.push(...token.split(separator))
flatSplit(tokens, sep) ==
  IF tokens = << >> THEN << >>
  ELSE split(Head(tokens), sep) \o flatSplit(Tail(tokens), sep)

\* .map(t => t.trim())
trimAll(tokens) == [i \in 1..Len(tokens) |-> trim(tokens[i])]

cleanTokensUnfiltered(tokens) == trimAll(tokens)

\* .map(t => t.trim()).filter(t => t)
cleanTokens(tokens) == SelectSeq(trimAll(tokens), LAMBDA t : t # << >>)

\* only the first separator of the list is applied
applySeparatorsOnce(tokens, separators) ==
  IF separators = << >> THEN tokens ELSE flatSplit(tokens, Head(separators))

RECURSIVE applySeparators(_, _)
\* for (const separator of separators) { ... tokens = newTokens }
applySeparators(tokens, separators) ==
  IF separators = << >> THEN tokens
  ELSE applySeparators(flatSplit(tokens, Head(separators)), Tail(separators))

splitByMultipleSeparators(text, separators) ==
  IF separators = << >> THEN cleanTokens(split(text, << "," >>))
  ELSE cleanTokens(applySeparators(<< text >>, separators))

(***************************************************************************)
(* Random number generators.  A generator is a record; rngDraw(rng, k) is  *)
(* the value of the k-th call of rng().                                    *)
(***************************************************************************)
Digit(d) == << CASE d = 0 -> "0" [] d = 1 -> "1" [] d = 2 -> "2" [] d = 3 -> "3"
                 [] d = 4 -> "4" [] d = 5 -> "5" [] d = 6 -> "6" [] d = 7 -> "7"
                 [] d = 8 -> "8" [] d = 9 -> "9" >>

RECURSIVE natToString(_)
natToString(n) ==
  IF n < 10 THEN Digit(n) ELSE natToString(n \div 10) \o Digit(n % 10)

\* Number.prototype.toString of an integer
toString(n) == IF n < 0 THEN << "-" >> \o natToString(0 - n) ELSE natToString(n)

CharCode(c) ==
  CASE c = " " -> 32 [] c = "," -> 44 [] c = "-" -> 45 [] c = "." -> 46
    [] c = "0" -> 48 [] c = "1" -> 49 [] c = "2" -> 50 [] c = "3" -> 51
    [] c = "4" -> 52 [] c = "5" -> 53 [] c = "6" -> 54 [] c = "7" -> 55
    [] c = "8" -> 56 [] c = "9" -> 57 [] c = "\\" -> 92
    [] c = "a" -> 97 [] c = "b" -> 98 [] c = "c" -> 99 [] c = "d" -> 100
    [] c = "e" -> 101 [] c = "f" -> 102 [] c = "i" -> 105 [] c = "x" -> 120
    [] c = "|" -> 124

RECURSIVE keyHash(_, _)
keyHash(key, h) ==
  IF key = << >> THEN h
  ELSE keyHash(Tail(key), (h * 31 + CharCode(Head(key))) % 65537)

RECURSIVE lcg(_, _)
lcg(x, k) == IF k = 0 THEN x ELSE lcg((x * 75 + 74) % 65537, k - 1)

\* seedrandom(key): a generator whose whole output is a function of key
seedrandom(key) == [seeded |-> TRUE, key |-> key, off |-> 0]

\* Math.random is the platform's generator, shared by all calls: off draws
\* have been consumed.  Its output is the sequence of the base-RngRes digits
\* of the successive words of MaxDraws digits, so that every word of
\* MaxDraws draws starts at some position; the sequence repeats after
\* MathRandomPeriod draws.
MathRandom(off) == [seeded |-> FALSE, key |-> << >>, off |-> off]

MathRandomPeriod == MaxDraws * (RngRes ^ MaxDraws)

\* the digit at position g of the Math.random sequence
mathRandomDigit(g) == ((g \div MaxDraws) \div (RngRes ^ (g % MaxDraws))) % RngRes

rngDraw(rng, k) ==
  IF rng.seeded
  THEN (lcg(keyHash(rng.key, 7), k) \div 7) % RngRes
  ELSE mathRandomDigit((rng.off + k - 1) % MathRandomPeriod)

\* a generator that ignores the seed
makeRngUnseeded(seed, mathRandom) == mathRandom

\* rng = seed !== undefined ? seedrandom(seed.toString()) : Math.random
makeRng(seed, mathRandom) ==
  IF seed.defined THEN seedrandom(toString(seed.value)) ELSE mathRandom

\* Math.random after n more draws
advance(rng, n) == [rng EXCEPT !.off = (@ + n) % MathRandomPeriod]

\* the number of calls of Math.random among n calls of rng()
mathRandomCalls(rng, n) == IF rng.seeded THEN 0 ELSE n

(***************************************************************************)
(* The keep-tokens regular expression.                                     *)
(***************************************************************************)
RegexMeta == {".", "*", "+", "?", "^", "$", "{", "}", "(", ")", "|", "[", "]", "\\"}

RECURSIVE escapeRegExp(_)
\* keepTokensSeparator.replace(/[.*+?^${}()|[\]\\]/g, '\\$&')
escapeRegExp(s) ==
  IF s = << >> THEN << >>
  ELSE (IF Head(s) \in RegexMeta THEN << "\\", Head(s) >> ELSE << Head(s) >>)
         \o escapeRegExp(Tail(s))

RECURSIVE classAtoms(_)
\* the atoms of the text placed inside [^...]: \c is the character c
classAtoms(e) ==
  IF e = << >> THEN << >>
  ELSE IF Head(e) = "\\" /\ Len(e) >= 2
       THEN << [c |-> e[2], dash |-> FALSE] >> \o classAtoms(SubSeq(e, 3, Len(e)))
       ELSE << [c |-> Head(e), dash |-> Head(e) = "-"] >> \o classAtoms(Tail(e))

\* the characters of the class range from a to b
rangeChars(a, b) ==
  {c \in Chars \cup {a, b} : CharCode(a) <= CharCode(c) /\ CharCode(c) <= CharCode(b)}

\* the class with one more member in front: a range out of order is a SyntaxError
addToClass(err, chars, rest) ==
  [err |-> err \/ rest.err, chars |-> chars \cup rest.chars]

RECURSIVE classRanges(_)
\* ClassRanges of the atoms: A-B is a range, anything else a single character
classRanges(atoms) ==
  IF atoms = << >> THEN [err |-> FALSE, chars |-> {}]
  ELSE IF Len(atoms) >= 3 /\ atoms[2].dash
       THEN addToClass(CharCode(atoms[1].c) > CharCode(atoms[3].c),
                       rangeChars(atoms[1].c, atoms[3].c),
                       classRanges(SubSeq(atoms, 4, Len(atoms))))
       ELSE addToClass(FALSE, {atoms[1].c}, classRanges(Tail(atoms)))

\* new RegExp(`${escapedSeparator}([^${escapedSeparator}]+)${escapedSeparator}`, 'g')
keepTokensRegex(keepTokensSeparator) ==
  [sep |-> keepTokensSeparator,
   class |-> classRanges(classAtoms(escapeRegExp(keepTokensSeparator)))]

\* the match that starts at p when the first excluded character after the
\* opening separator is at q: 0, or the position of the closing separator
closing(re, s, p, q) ==
  IF MatchesAt(s, re.sep, p) /\ q > p + Len(re.sep) /\ MatchesAt(s, re.sep, q)
  THEN q ELSE 0

\* the match of the regex that starts at position p: 0, or the position of the
\* closing separator
matchEnd(re, s, p) ==
  closing(re, s, p, least({q \in (p + Len(re.sep))..Len(s) : s[q] \in re.class.chars}))

RECURSIVE execAll(_, _, _)
\* the match from p to q, and the matches after it
execSpan(re, s, p, q) ==
  << SubSeq(s, p + Len(re.sep), q - 1) >> \o execAll(re, s, q + Len(re.sep))

\* the matches from the first match, which starts at p (0: no match)
execFrom(re, s, p) ==
  IF p = 0 THEN << >> ELSE execSpan(re, s, p, matchEnd(re, s, p))

\* while ((match = keepTokensRegex.exec(originalCaption)) !== null): the
\* sequence of match[1], searching on from lastIndex after each match
execAll(re, s, lastIndex) ==
  execFrom(re, s, least({p \in lastIndex..Len(s) : matchEnd(re, s, p) # 0}))

(***************************************************************************)
(* The transforms.  A transform returns [value, draws, used]: the returned *)
(* string (or Thrown when the call raises), the number of calls of rng()   *)
(* it made and the number of calls of Math.random among them.              *)
(***************************************************************************)
\* the outcome of a call that raises an exception
Thrown == << "SyntaxError" >>

\* the outcome of a simulator whose transform raises
ThrownArray == << Thrown >>

\* a return before any call of rng()
NoDraws(value) == [value |-> value, draws |-> 0, used |-> 0]

\* Array.isArray(captionSeparator) ? (length > 0 ? captionSeparator[0] : ',') : captionSeparator
primarySeparator(captionSeparator) ==
  IF captionSeparator.isArray
  THEN (IF Len(captionSeparator.list) > 0 THEN captionSeparator.list[1] ELSE << "," >>)
  ELSE captionSeparator.str

\* Array.isArray(captionSeparator) ? splitByMultipleSeparators(...) : split/trim/filter
tokenize(originalCaption, captionSeparator) ==
  IF captionSeparator.isArray
  THEN splitByMultipleSeparators(originalCaption, captionSeparator.list)
  ELSE cleanTokens(split(originalCaption, captionSeparator.str))

\* if (keepTokens > 0 && keepTokensSeparator) ... the regex is built
usesKeepRegex(keepTokens, keepTokensSeparator) ==
  keepTokens > 0 /\ keepTokensSeparator # << >>

\* new RegExp(...) raises a SyntaxError
keepRegexRaises(keepTokens, keepTokensSeparator) ==
  usesKeepRegex(keepTokens, keepTokensSeparator)
    /\ keepTokensRegex(keepTokensSeparator).class.err

\* match[1] of every match of the regex in the caption
matchedSpans(originalCaption, keepTokensSeparator) ==
  execAll(keepTokensRegex(keepTokensSeparator), originalCaption, 1)

\* tokensToKeep of applyCaptionDropout: the trimmed text of every match
dropoutTokensToKeep(originalCaption, keepTokens, keepTokensSeparator) ==
  IF usesKeepRegex(keepTokens, keepTokensSeparator)
  THEN trimAll(matchedSpans(originalCaption, keepTokensSeparator))
  ELSE << >>

\* no token is exempt from dropout
isProtectedNever(token, tokensToKeep) == FALSE

\* tokensToKeep.some(keepToken => token.includes(keepToken))
isProtected(token, tokensToKeep) ==
  \E i \in 1..Len(tokensToKeep) : includes(token, tokensToKeep[i])

\* a comparison the wrong way round
survivesInverted(draw, dropoutRate) == draw < dropoutRate

\* return rng() > dropoutRate
survives(draw, dropoutRate) == draw > dropoutRate

\* the filter's result for a token and the result for the tokens after it
filtered(kept, token, rest) ==
  [tokens |-> (IF kept THEN << token >> ELSE << >>) \o rest.tokens, draws |-> rest.draws]

RECURSIVE dropoutFilter(_, _, _, _, _)
\* tokens.filter(...): k calls of rng() were made before
dropoutFilter(tokens, tokensToKeep, dropoutRate, rng, k) ==
  IF tokens = << >> THEN [tokens |-> << >>, draws |-> k]
  ELSE IF isProtected(Head(tokens), tokensToKeep)
       THEN filtered(TRUE, Head(tokens),
                     dropoutFilter(Tail(tokens), tokensToKeep, dropoutRate, rng, k))
       ELSE filtered(survives(rngDraw(rng, k + 1), dropoutRate), Head(tokens),
                     dropoutFilter(Tail(tokens), tokensToKeep, dropoutRate, rng, k + 1))

\* return newTokens.join(primarySeparator), after draws calls of rng()
joined(newTokens, draws, separator, rng) ==
  [value |-> join(newTokens, separator), draws |-> draws,
   used |-> mathRandomCalls(rng, draws)]

\* the filter and the join of applyCaptionDropout
dropoutJoin(r, separator, rng) == joined(r.tokens, r.draws, separator, rng)

\* applyCaptionDropout from the tokens on
dropoutTokens(tokens, originalCaption, dropoutRate, keepTokens, keepTokensSeparator, captionSeparator, rng) ==
  IF tokens = << >> THEN NoDraws(<< >>)
  ELSE IF keepRegexRaises(keepTokens, keepTokensSeparator) THEN NoDraws(Thrown)
  ELSE dropoutJoin(dropoutFilter(tokens,
                     dropoutTokensToKeep(originalCaption, keepTokens, keepTokensSeparator),
                     dropoutRate, rng, 0),
                   primarySeparator(captionSeparator), rng)

applyCaptionDropout(originalCaption, dropoutRate, keepTokens, keepTokensSeparator, captionSeparator, seed, mathRandom) ==
  IF originalCaption = << >> \/ trim(originalCaption) = << >> THEN NoDraws(<< >>)
  ELSE dropoutTokens(tokenize(originalCaption, captionSeparator), originalCaption,
                     dropoutRate, keepTokens, keepTokensSeparator, captionSeparator,
                     makeRng(seed, mathRandom))

\* the index of the first token that includes keepToken, 0 when there is none
firstIncluding(tokens, keepToken) ==
  least({i \in 1..Len(tokens) : includes(tokens[i], keepToken)})

\* the indexes pushed to tokensToKeep for the matches
pinnedBy(tokens, spans) ==
  {firstIncluding(tokens, trim(spans[i])) : i \in 1..Len(spans)} \ {0}

\* keepPositions of shuffleCaption (1-based token indexes)
keepPositions(originalCaption, tokens, keepTokens, keepTokensSeparator) ==
  IF usesKeepRegex(keepTokens, keepTokensSeparator)
  THEN pinnedBy(tokens, matchedSpans(originalCaption, keepTokensSeparator))
  ELSE {}

\* an index below i: Math.floor(rng() * i)
swapIndexBelow(draw, i) == (draw * i) \div RngRes

\* const j = Math.floor(rng() * (i + 1))
swapIndex(draw, i) == (draw * (i + 1)) \div RngRes

\* [arr[i], arr[j]] = [arr[j], arr[i]], i and j 0-based
swap(arr, i, j) == [arr EXCEPT ![i + 1] = arr[j + 1], ![j + 1] = arr[i + 1]]

RECURSIVE fisherYates(_, _, _, _)
\* for (let i = length - 1; i > 0; i--) swap [i] and [j]; i is 0-based
fisherYates(arr, i, rng, k) ==
  IF i <= 0 THEN arr
  ELSE fisherYates(swap(arr, i, swapIndex(rngDraw(rng, k + 1), i)), i - 1, rng, k + 1)

\* the indexes of tokens.filter((_, index) => !keepPositions.includes(index))
freeIndexes(n, keep) == SelectSeq([i \in 1..n |-> i], LAMBDA i : i \notin keep)

\* tokensToShuffle before the shuffle
tokensAt(tokens, indexes) == [n \in 1..Len(indexes) |-> tokens[indexes[n]]]

\* newTokens: the shuffled tokens written to the positions that are not kept
writeBack(tokens, keep, shuffled) ==
  [i \in 1..Len(tokens) |->
     IF i \in keep THEN tokens[i]
     ELSE shuffled[Cardinality({p \in 1..i : p \notin keep})]]

\* the number of calls of rng() of the shuffle of n tokens
shuffleDraws(n) == IF n > 1 THEN n - 1 ELSE 0

\* the shuffle, the reconstruction and the join of shuffleCaption
shuffleFree(tokens, keep, free, separator, rng) ==
  joined(writeBack(tokens, keep,
                   fisherYates(tokensAt(tokens, free), Len(free) - 1, rng, 0)),
         shuffleDraws(Len(free)), separator, rng)

\* shuffleCaption from keepPositions on
shuffleKeeping(tokens, keep, separator, rng) ==
  shuffleFree(tokens, keep, freeIndexes(Len(tokens), keep), separator, rng)

\* shuffleCaption from the tokens on
shuffleTokens(tokens, originalCaption, keepTokens, keepTokensSeparator, captionSeparator, rng) ==
  IF tokens = << >> THEN NoDraws(<< >>)
  ELSE IF keepRegexRaises(keepTokens, keepTokensSeparator) THEN NoDraws(Thrown)
  ELSE shuffleKeeping(tokens,
                      keepPositions(originalCaption, tokens, keepTokens,
                                    keepTokensSeparator),
                      primarySeparator(captionSeparator), rng)

shuffleCaption(originalCaption, keepTokens, keepTokensSeparator, captionSeparator, seed, mathRandom) ==
  IF originalCaption = << >> \/ trim(originalCaption) = << >> THEN NoDraws(<< >>)
  ELSE shuffleTokens(tokenize(originalCaption, captionSeparator), originalCaption,
                     keepTokens, keepTokensSeparator, captionSeparator,
                     makeRng(seed, mathRandom))

\* the result of the two stages
bothStages(d, s) ==
  [value |-> s.value, draws |-> d.draws + s.draws, used |-> d.used + s.used]

\* the dropped caption is returned as it is
shuffleDroppedSkipped(droppedCaption, keepTokens, keepTokensSeparator, captionSeparator, seed, mathRandom) ==
  droppedCaption

\* return shuffleCaption(droppedCaption, ...)
shuffleDropped(droppedCaption, keepTokens, keepTokensSeparator, captionSeparator, seed, mathRandom) ==
  IF droppedCaption.value = Thrown THEN droppedCaption
  ELSE bothStages(droppedCaption,
                  shuffleCaption(droppedCaption.value, keepTokens, keepTokensSeparator,
                                 captionSeparator, seed,
                                 advance(mathRandom, droppedCaption.used)))

applyBothDropoutAndShuffle(originalCaption, dropoutRate, keepTokens, keepTokensSeparator, captionSeparator, seed, mathRandom) ==
  shuffleDropped(applyCaptionDropout(originalCaption, dropoutRate, keepTokens,
                                     keepTokensSeparator, captionSeparator, seed,
                                     mathRandom),
                 keepTokens, keepTokensSeparator, captionSeparator, seed, mathRandom)

(***************************************************************************)
(* The step simulators.  A simulator returns [values, used]: the array of  *)
(* results (or ThrownArray) and the number of calls of Math.random made.   *)
(***************************************************************************)
Min(a, b) == IF a < b THEN a ELSE b

\* a step count without the cap
safeStepCountUncapped(steps) == steps

\* const safeStepCount = Math.min(steps, 1000)
safeStepCount(steps) == Min(steps, StepCap)

\* every step runs with the top-level seed
stepSeedConstant(seed, i) == seed

\* the seed grows by two from step to step
stepSeedDoubled(seed, i) ==
  IF seed.defined THEN [defined |-> TRUE, value |-> seed.value + 2 * i] ELSE seed

\* const stepSeed = seed !== undefined ? baseSeed + i : undefined
stepSeed(seed, i) ==
  IF seed.defined THEN [defined |-> TRUE, value |-> seed.value + i] ELSE seed

\* one call of the transform that the simulator kind runs
transform(kind, originalCaption, dropoutRate, keepTokens, keepTokensSeparator, captionSeparator, seed, mathRandom) ==
  CASE kind = "dropout" ->
         applyCaptionDropout(originalCaption, dropoutRate, keepTokens,
                             keepTokensSeparator, captionSeparator, seed, mathRandom)
    [] kind = "shuffle" ->
         shuffleCaption(originalCaption, keepTokens, keepTokensSeparator,
                        captionSeparator, seed, mathRandom)
    [] kind = "both" ->
         applyBothDropoutAndShuffle(originalCaption, dropoutRate, keepTokens,
                             keepTokensSeparator, captionSeparator, seed, mathRandom)

\* results.push(result) of one iteration, after used0 calls of Math.random
pushed(r, used0) ==
  [values |-> IF r.value = Thrown THEN ThrownArray ELSE << r.value >>,
   used |-> used0 + r.used]

\* the results of the iterations first followed by the iterations rest
appended(first, rest) ==
  IF first.values = ThrownArray THEN first
  ELSE IF rest.values = ThrownArray THEN rest
  ELSE [values |-> first.values \o rest.values, used |-> rest.used]

RECURSIVE stepLoop(_, _, _, _, _, _, _, _, _, _, _)
\* the iterations mid..hi-1 after the iterations first
stepLoopAfter(kind, originalCaption, dropoutRate, keepTokens, keepTokensSeparator, captionSeparator, seed, mathRandom, mid, hi, first) ==
  appended(first, stepLoop(kind, originalCaption, dropoutRate, keepTokens,
                           keepTokensSeparator, captionSeparator, seed, mathRandom,
                           mid, hi, first.used))

\* for (let i = lo; i < hi; i++) results.push(...), with used0 calls of
\* Math.random made before; the iterations are evaluated by halves, in order
stepLoop(kind, originalCaption, dropoutRate, keepTokens, keepTokensSeparator, captionSeparator, seed, mathRandom, lo, hi, used0) ==
  IF ~(lo < hi) THEN [values |-> << >>, used |-> used0]
  ELSE IF hi = lo + 1
  THEN pushed(transform(kind, originalCaption, dropoutRate, keepTokens,
                        keepTokensSeparator, captionSeparator, stepSeed(seed, lo),
                        advance(mathRandom, used0)),
              used0)
  ELSE stepLoopAfter(kind, originalCaption, dropoutRate, keepTokens,
                     keepTokensSeparator, captionSeparator, seed, mathRandom,
                     (lo + hi) \div 2, hi,
                     stepLoop(kind, originalCaption, dropoutRate, keepTokens,
                              keepTokensSeparator, captionSeparator, seed, mathRandom,
                              lo, (lo + hi) \div 2, used0))

\* baseSeed = seed !== undefined ? seed : Math.floor(Math.random() * 1000000):
\* the number of calls of Math.random
baseSeedDraws(seed) == IF seed.defined THEN 0 ELSE 1

simulateDropoutSteps(originalCaption, dropoutRate, steps, keepTokens, keepTokensSeparator, captionSeparator, seed, mathRandom) ==
  stepLoop("dropout", originalCaption, dropoutRate, keepTokens, keepTokensSeparator,
           captionSeparator, seed, mathRandom, 0, safeStepCount(steps),
           baseSeedDraws(seed))

simulateShuffleSteps(originalCaption, steps, keepTokens, keepTokensSeparator, captionSeparator, seed, mathRandom) ==
  stepLoop("shuffle", originalCaption, 0, keepTokens, keepTokensSeparator,
           captionSeparator, seed, mathRandom, 0, safeStepCount(steps),
           baseSeedDraws(seed))

simulateBothOperationsSteps(originalCaption, dropoutRate, steps, keepTokens, keepTokensSeparator, captionSeparator, seed, mathRandom) ==
  stepLoop("both", originalCaption, dropoutRate, keepTokens, keepTokensSeparator,
           captionSeparator, seed, mathRandom, 0, safeStepCount(steps),
           baseSeedDraws(seed))

(***************************************************************************)
(* The state machine: the arguments of the calls are fixed by Init, every  *)
(* action is one call of an exported function with these arguments.  A     *)
(* behaviour is one call, followed by at most one more call of the same    *)
(* function with the same arguments.                                       *)
(***************************************************************************)
VARIABLES
  originalCaption,      \* the caption
  dropoutRate,          \* numerator of the dropout rate over RngRes
  keepTokens,
  keepTokensSeparator,
  captionSeparator,     \* [isArray, str, list]: a string or an array of strings
  seed,                 \* [defined, value]
  steps,                \* requested step count of the simulators
  mathRandom,           \* the platform generator Math.random
  ret,                  \* the last call: [fn, value, values]
  prev,                 \* the call before it
  signals,              \* the signals of the visualizer component
  fetches,              \* the loadCaptions invocations that await their fetch
  lastEvent             \* the event handler or continuation that ran last

args == << originalCaption, dropoutRate, keepTokens, keepTokensSeparator,
           captionSeparator, seed, steps >>
component == << signals, fetches, lastEvent >>
vars == << originalCaption, dropoutRate, keepTokens, keepTokensSeparator,
           captionSeparator, seed, steps, mathRandom, ret, prev, component >>

RECURSIVE StringsOfLen(_)
StringsOfLen(n) ==
  IF n = 0 THEN {<< >>}
  ELSE {<< c >> \o s : c \in Alphabet, s \in StringsOfLen(n - 1)}

ShortCaptions == UNION {StringsOfLen(n) : n \in 0..MaxLen}

ExampleCaptions ==
  {<< " " >>,
   << "a", ",", "b" >>,
   << "b", ",", "a", ",", "b" >>,
   << "a", ",", " ", "b", ",", " ", "c", ",", " ", "d" >>,
   << "f", "i", "x", "e", "d", " ", "|", "|", "|", " ", "a", ",", " ", "b", ",", " ", "c" >>,
   << "a", ",", "b", "|", "c", ",", "d", "|", "a", ",", "b" >>,
   << "a", ",", "|", "b", "|", ",", "c" >>,
   << "a", "|", " ", "|", "|", "b" >>,
   << "a", ",", "|", " ", "|", ",", "b" >>}

Captions == ShortCaptions \cup ExampleCaptions

\* rates 0, 1/RngRes, 1 and above 1
Rates == {0, 1, RngRes, RngRes + 1}

KeepTokenCounts == {0, 1}

KeepSeparators == {<< >>, << "|" >>, << "|", "|", "|" >>}

StringSeparator(s) == [isArray |-> FALSE, str |-> s, list |-> << >>]
ArraySeparator(l) == [isArray |-> TRUE, str |-> << >>, list |-> l]

CaptionSeparators ==
  {StringSeparator(<< "," >>),
   ArraySeparator(<< >>),
   ArraySeparator(<< << "," >> >>),
   ArraySeparator(<< << "," >>, << "|" >> >>),
   ArraySeparator(<< << "|", "|" >> >>)}

Undefined == [defined |-> FALSE, value |-> 0]
Seeded(n) == [defined |-> TRUE, value |-> n]
Seeds == {Undefined, Seeded(0), Seeded(3)}

\* Math.random at the start of any word of its sequence
MathRandoms == {MathRandom(MaxDraws * w) : w \in 0..((RngRes ^ MaxDraws) - 1)}

NoCall == [fn |-> "none", value |-> << >>, values |-> << >>]

\* the signals of the component as createSignal leaves them
DefaultPath == "/home/kade/diffusion/datasets/fd"
NullCaption == [folder |-> "", fileName |-> 0]
InitialSignals ==
  [datasetPath |-> DefaultPath, isLoading |-> FALSE, error |-> "", captions |-> << >>,
   selectedCaption |-> NullCaption, currentPage |-> 1,
   operationType |-> "dropout", useWolfCaptions |-> FALSE,
   dropoutResults |-> << >>, showStats |-> FALSE, currentStep |-> 0]

NoEvent == [name |-> "none", id |-> 0, response |-> "none"]

\* the component is not mounted: the functions are called on their own
Unmounted ==
  /\ signals = InitialSignals
  /\ fetches = << >>
  /\ lastEvent = NoEvent

InitCalls ==
  /\ seed \in Seeds
  /\ mathRandom \in (IF seed.defined THEN {MathRandom(0)} ELSE MathRandoms)
  /\ ret = NoCall
  /\ prev = NoCall
  /\ Unmounted

Init ==
  /\ originalCaption \in Captions
  /\ dropoutRate \in Rates
  /\ keepTokens \in KeepTokenCounts
  /\ keepTokensSeparator \in KeepSeparators
  /\ captionSeparator \in CaptionSeparators
  /\ steps = 0
  /\ InitCalls

\* fn can be called: nothing was called yet, or fn was called once
Callable(fn) == ret = NoCall \/ (ret.fn = fn /\ prev = NoCall)

\* the state after a call of fn that returned value (values for a simulator)
\* and made used calls of Math.random
Returns(fn, value, values, used) ==
  /\ ret' = [fn |-> fn, value |-> value, values |-> values]
  /\ prev' = ret
  /\ mathRandom' = advance(mathRandom, used)
  /\ UNCHANGED << args, component >>

CallApplyCaptionDropout ==
  /\ Callable("applyCaptionDropout")
  /\ LET r == applyCaptionDropout(originalCaption, dropoutRate, keepTokens,
                keepTokensSeparator, captionSeparator, seed, mathRandom)
     IN  Returns("applyCaptionDropout", r.value, << >>, r.used)

CallShuffleCaption ==
  /\ Callable("shuffleCaption")
  /\ LET r == shuffleCaption(originalCaption, keepTokens, keepTokensSeparator,
                captionSeparator, seed, mathRandom)
     IN  Returns("shuffleCaption", r.value, << >>, r.used)

CallApplyBothDropoutAndShuffle ==
  /\ Callable("applyBothDropoutAndShuffle")
  /\ LET r == applyBothDropoutAndShuffle(originalCaption, dropoutRate, keepTokens,
                keepTokensSeparator, captionSeparator, seed, mathRandom)
     IN  Returns("applyBothDropoutAndShuffle", r.value, << >>, r.used)

Next ==
  \/ CallApplyCaptionDropout
  \/ CallShuffleCaption
  \/ CallApplyBothDropoutAndShuffle

Spec == Init /\ [][Next]_vars

(***************************************************************************)
(* The step simulators as calls, for a narrower set of arguments.          *)
(***************************************************************************)
\* largest step count of SpecSim
MaxSteps == 2

CallSimulateDropoutSteps ==
  /\ Callable("simulateDropoutSteps")
  /\ LET r == simulateDropoutSteps(originalCaption, dropoutRate, steps, keepTokens,
                keepTokensSeparator, captionSeparator, seed, mathRandom)
     IN  Returns("simulateDropoutSteps", << >>, r.values, r.used)

CallSimulateShuffleSteps ==
  /\ Callable("simulateShuffleSteps")
  /\ LET r == simulateShuffleSteps(originalCaption, steps, keepTokens,
                keepTokensSeparator, captionSeparator, seed, mathRandom)
     IN  Returns("simulateShuffleSteps", << >>, r.values, r.used)

CallSimulateBothOperationsSteps ==
  /\ Callable("simulateBothOperationsSteps")
  /\ LET r == simulateBothOperationsSteps(originalCaption, dropoutRate, steps, keepTokens,
                keepTokensSeparator, captionSeparator, seed, mathRandom)
     IN  Returns("simulateBothOperationsSteps", << >>, r.values, r.used)

SimCaptions ==
  {<< >>,
   << "a", ",", "b" >>,
   << "b", ",", "a", ",", "b" >>,
   << "a", ",", "|", "b", "|", ",", "c" >>}

InitSim ==
  /\ originalCaption \in SimCaptions
  /\ dropoutRate \in Rates
  /\ keepTokens \in KeepTokenCounts
  /\ keepTokensSeparator \in {<< >>, << "|" >>}
  /\ captionSeparator \in {ArraySeparator(<< << "," >> >>), StringSeparator(<< "," >>)}
  /\ steps \in 0..MaxSteps
  /\ InitCalls

NextSim ==
  \/ CallApplyCaptionDropout
  \/ CallShuffleCaption
  \/ CallApplyBothDropoutAndShuffle
  \/ CallSimulateDropoutSteps
  \/ CallSimulateShuffleSteps
  \/ CallSimulateBothOperationsSteps

SpecSim == InitSim /\ [][NextSim]_vars

\* step counts around the cap
CapSteps == {0, 1, 2, 3, 4, StepCap, StepCap + 1, 5 * StepCap}

InitCap ==
  /\ originalCaption \in {<< "a", ",", "b" >>, << "b", ",", "a", ",", "b" >>}
  /\ dropoutRate = 1
  /\ keepTokens = 0
  /\ keepTokensSeparator = << >>
  /\ captionSeparator = ArraySeparator(<< << "," >> >>)
  /\ steps \in CapSteps
  /\ seed \in Seeds
  /\ mathRandom = MathRandom(0)
  /\ ret = NoCall
  /\ prev = NoCall
  /\ Unmounted

NextCap ==
  \/ CallSimulateDropoutSteps
  \/ CallSimulateShuffleSteps
  \/ CallSimulateBothOperationsSteps

SpecCap == InitCap /\ [][NextCap]_vars

(***************************************************************************)
(* The wolf caption rewrite (src/src/utils/wolfCaptions.ts).               *)
(*                                                                         *)
(* A placeholder that stands for a matched abbreviation or decimal number  *)
(* is the sequence of the protected characters of the match: a protected   *)
(* character is a symbol that is no period, no space and no digit, as the  *)
(* characters of `__ABBRn__xxxxxxxx` and `__NUMxxxxxxxx__` are none of them *)
(* where the later steps look (the random part is taken not to run into    *)
(* the text that follows it).  The first symbol of a placeholder is marked *)
(* as such; restoring the placeholders unprotects the symbols.             *)
(***************************************************************************)
TagSeparator == << "|", "|", "|" >>

\* F(x), the value x being computed before F is applied to it (the statements
\* of the code run one after the other)
Then(x, F(_)) == CHOOSE r \in {F(t) : t \in {x}} : TRUE

commonAbbreviations ==
  << << "M", "r", "." >>, << "M", "r", "s", "." >>, << "M", "s", "." >>,
     << "D", "r", "." >>, << "P", "r", "o", "f", "." >>, << "R", "e", "v", "." >>,
     << "H", "o", "n", "." >>,
     << "e", "t", "c", "." >>, << "v", "s", "." >>, << "e", ".", "g", "." >>,
     << "i", ".", "e", "." >>, << "e", "t", " ", "a", "l", "." >>,
     << "a", ".", "m", "." >>, << "p", ".", "m", "." >>,
     << "U", ".", "S", "." >>, << "U", ".", "K", "." >>,
     << "U", ".", "S", ".", "A", "." >>, << "N", ".", "Y", "." >>,
     << "P", "h", ".", "D", "." >>, << "B", ".", "A", "." >>, << "M", ".", "A", "." >>,
     << "M", ".", "S", "." >>, << "B", ".", "S", "." >>,
     << "k", ".", "k", "." >>, << "I", "n", "c", "." >>, << "L", "t", "d", "." >>,
     << "J", "r", "." >>, << "S", "r", "." >>, << "S", "t", "." >> >>

\* the characters of the abbreviations
AbbreviationChars ==
  UNION {{commonAbbreviations[i][k] : k \in 1..Len(commonAbbreviations[i])} :
           i \in 1..Len(commonAbbreviations)}

Digits == {"0", "1", "2", "3", "4", "5", "6", "7", "8", "9"}
IsDigit(c) == c \in Digits

\* the symbols of a placeholder that stand for the character c: the first
\* symbol of the placeholder and a later one
protectFirst(c) == "[" \o c \o ">"
protect(c) == "<" \o c \o ">"

\* uniqueId: the placeholder of a match
placeholder(match) ==
  [i \in 1..Len(match) |-> IF i = 1 THEN protectFirst(match[i]) ELSE protect(match[i])]

IsPlaceholderStart(a) == \E c \in AbbreviationChars \cup Digits : protectFirst(c) = a

\* placeholders[uniqueId]: the character a symbol stands for
unprotect(a) ==
  IF \E c \in AbbreviationChars \cup Digits : a \in {protect(c), protectFirst(c)}
  THEN CHOOSE c \in AbbreviationChars \cup Digits : a \in {protect(c), protectFirst(c)}
  ELSE a

\* caption.split('|||', 2): at most the first two pieces
splitLimit(s, sep, limit) == SubSeq(split(s, sep), 1, Min(limit, Len(split(s, sep))))

tagPartOf(parts) == parts[1] \o TagSeparator \o << " " >>
tagPart(caption) ==
  IF includes(caption, TagSeparator) THEN tagPartOf(splitLimit(caption, TagSeparator, 2))
  ELSE << >>

descPart(caption) ==
  IF includes(caption, TagSeparator) THEN splitLimit(caption, TagSeparator, 2)[2]
  ELSE caption

RECURSIVE replaceAbbreviation(_, _)
\* text.replace(abbr, match => uniqueId) when the first match is at i (0: none)
replaceAbbreviationAt(text, abbr, i) ==
  IF i = 0 THEN text
  ELSE SubSeq(text, 1, i - 1) \o placeholder(abbr)
         \o replaceAbbreviation(SubSeq(text, i + Len(abbr), Len(text)), abbr)

replaceAbbreviation(text, abbr) == replaceAbbreviationAt(text, abbr, indexOf(text, abbr, 1))

RECURSIVE replaceAbbreviations(_, _, _)
\* commonAbbreviations.forEach((abbr, index) => ...) for the abbreviations lo..hi
\* of the list, in the order of the list
replaceAbbreviations(text, lo, hi) ==
  IF lo = hi THEN replaceAbbreviation(text, commonAbbreviations[lo])
  ELSE Then(replaceAbbreviations(text, lo, (lo + hi) \div 2),
            LAMBDA t : replaceAbbreviations(t, ((lo + hi) \div 2) + 1, hi))

\* the last position of the run of digits that starts at p
digitsEnd(s, p) == least({q \in p..Len(s) : q = Len(s) \/ ~IsDigit(s[q + 1])})

\* \.\d+ after the digits that end at q: the end of the match, 0 when none
fractionEnd(s, q) ==
  IF q + 2 <= Len(s) /\ s[q + 1] = "." /\ IsDigit(s[q + 2]) THEN digitsEnd(s, q + 2)
  ELSE 0

\* /\d+\.\d+/ at position p: the end of the match, 0 when none
decimalEnd(s, p) == IF IsDigit(s[p]) THEN fractionEnd(s, digitsEnd(s, p)) ELSE 0

\* the start of the leftmost match of decimalPattern, 0 when none
decimalStart(s) == least({p \in 1..Len(s) : decimalEnd(s, p) # 0})

RECURSIVE replaceDecimals(_)
replaceDecimalSpan(s, p, e) ==
  SubSeq(s, 1, p - 1) \o placeholder(SubSeq(s, p, e))
    \o replaceDecimals(SubSeq(s, e + 1, Len(s)))

replaceDecimalAt(s, p) == IF p = 0 THEN s ELSE replaceDecimalSpan(s, p, decimalEnd(s, p))

\* processedText.replace(decimalPattern, match => uniqueId)
replaceDecimals(s) == replaceDecimalAt(s, decimalStart(s))

\* processedText before the split
processedText(desc) == Then(replaceAbbreviations(desc, 1, Len(commonAbbreviations)), replaceDecimals)

\* String.prototype.endsWith('.')
endsWithPeriod(s) == s # << >> /\ s[Len(s)] = "."

\* what the loop appends for sentences[i]
sentencePart(sentences, i, desc) ==
  IF trim(sentences[i]) = << >> THEN << >>
  ELSE IF i = Len(sentences)
       THEN IF endsWithPeriod(sentences[i])
            THEN SubSeq(sentences[i], 1, Len(sentences[i]) - 1) \o << ".", "," >>
            ELSE sentences[i]
                   \o (IF endsWithPeriod(trim(desc)) THEN << ".", "," >> ELSE << >>)
       ELSE sentences[i] \o << ".", ",", " " >>

RECURSIVE reconstruct(_, _, _)
\* the result of the loop from sentence i on
reconstruct(sentences, i, desc) ==
  IF i > Len(sentences) THEN << >>
  ELSE sentencePart(sentences, i, desc) \o reconstruct(sentences, i + 1, desc)

\* Object.entries(placeholders).forEach(... result.replace(placeholder, original))
restorePlaceholders(result) == [i \in 1..Len(result) |-> unprotect(result[i])]

\* the sentences of the processed text, the loop over them and the restoring
rewriteDescription(desc) ==
  Then(Then(processedText(desc), LAMBDA text : split(text, << ".", " " >>)),
       LAMBDA sentences : restorePlaceholders(reconstruct(sentences, 1, desc)))

processWolfCaption(caption) ==
  IF trim(caption) = << >> THEN << >>
  ELSE tagPart(caption) \o rewriteDescription(descPart(caption))

\* the calls of Math.random: one for every placeholder
placeholderCount(text) == Cardinality({i \in 1..Len(text) : IsPlaceholderStart(text[i])})
wolfRandomCalls(caption) ==
  IF trim(caption) = << >> THEN 0 ELSE placeholderCount(processedText(descPart(caption)))

\* the separators of the caller, as they are
wolfSeparatorsUnchanged(originalSeparators) == originalSeparators

\* separators.includes('.,') ? separators : [...separators, '.,']
wolfSeparators(originalSeparators) ==
  IF \E i \in 1..Len(originalSeparators) : originalSeparators[i] = << ".", "," >>
  THEN originalSeparators
  ELSE Append(originalSeparators, << ".", "," >>)

splitWolfCaption(caption, originalSeparators) ==
  IF trim(caption) = << >> THEN << >>
  ELSE cleanTokens(applySeparators(<< caption >>, wolfSeparators(originalSeparators)))

(***************************************************************************)
(* The wolf caption functions and the tokenizer as calls.  The array of    *)
(* separators of a call is captionSeparator.list.                          *)
(***************************************************************************)
CallProcessWolfCaption ==
  /\ Callable("processWolfCaption")
  /\ Returns("processWolfCaption", processWolfCaption(originalCaption), << >>,
             wolfRandomCalls(originalCaption))

CallSplitWolfCaption ==
  /\ Callable("splitWolfCaption")
  /\ Returns("splitWolfCaption", << >>,
             splitWolfCaption(originalCaption, captionSeparator.list), 0)

CallSplitByMultipleSeparators ==
  /\ Callable("splitByMultipleSeparators")
  /\ Returns("splitByMultipleSeparators", << >>,
             splitByMultipleSeparators(originalCaption, captionSeparator.list), 0)

\* the transforms and the simulators are not called: their arguments are idle
IdleArguments ==
  /\ dropoutRate = 0
  /\ keepTokens = 0
  /\ keepTokensSeparator = << >>
  /\ steps = 0
  /\ seed = Undefined
  /\ mathRandom = MathRandom(0)
  /\ ret = NoCall
  /\ prev = NoCall
  /\ Unmounted

\* longest wolf caption, in pieces
MaxPieces == 4

\* the pieces the wolf captions are made of
WolfPieces ==
  {<< "U", ".", "S", "." >>, << "A", "." >>, << "a", ".", "m", "." >>,
   << " " >>, << "x" >>, << "." >>, << "1" >>, << "," >>, TagSeparator}

RECURSIVE PiecesOfLen(_)
PiecesOfLen(n) ==
  IF n = 0 THEN {<< >>}
  ELSE {p \o s : p \in WolfPieces, s \in PiecesOfLen(n - 1)}

WolfCaptions == UNION {PiecesOfLen(n) : n \in 0..MaxPieces}

InitWolf ==
  /\ originalCaption \in WolfCaptions
  /\ captionSeparator \in {ArraySeparator(<< << "," >> >>), ArraySeparator(<< >>)}
  /\ IdleArguments

NextWolf ==
  \/ CallProcessWolfCaption
  \/ CallSplitWolfCaption

SpecWolf == InitWolf /\ [][NextWolf]_vars

(***************************************************************************)
(* Every exported function as a call on a caption that is empty or white   *)
(* space, and on a few that are not, for every configuration.              *)
(***************************************************************************)
RECURSIVE BlanksOfLen(_)
BlanksOfLen(n) ==
  IF n = 0 THEN {<< >>}
  ELSE {<< c >> \o s : c \in {" ", "\t"}, s \in BlanksOfLen(n - 1)}

BlankCaptions == UNION {BlanksOfLen(n) : n \in 0..(MaxLen + 1)}

\* a keep separator for which new RegExp raises: the range b-a is out of order
RaisingKeepSeparator == << "b", "-", "a" >>

InitEmpty ==
  /\ originalCaption \in BlankCaptions \cup {<< "a" >>, << " ", "a", ",", "b" >>}
  /\ dropoutRate \in Rates
  /\ keepTokens \in KeepTokenCounts
  /\ keepTokensSeparator \in KeepSeparators \cup {RaisingKeepSeparator}
  /\ captionSeparator \in CaptionSeparators \cup {StringSeparator(<< >>)}
  /\ steps = 0
  /\ InitCalls

NextEmpty ==
  \/ CallApplyCaptionDropout
  \/ CallShuffleCaption
  \/ CallApplyBothDropoutAndShuffle
  \/ CallSplitByMultipleSeparators
  \/ CallSplitWolfCaption
  \/ CallProcessWolfCaption

SpecEmpty == InitEmpty /\ [][NextEmpty]_vars

(***************************************************************************)
(* The transforms as calls with keep separators that contain regular       *)
(* expression metacharacters or the range character of a character class.  *)
(***************************************************************************)
KeepCaptions ==
  {<< "a", ",", "b" >>,
   << "a", ",", "-", "c", "-", ",", "b" >>,
   << "a", ",", "a", "-", "b", "c", "a", "-", "b", ",", "d" >>,
   << "a", ",", "b", "-", "a", "c", "b", "-", "a", ",", "d" >>,
   << "a", ",", ".", "c", ".", ",", "b" >>}

SpecialKeepSeparators ==
  {<< >>, << "-" >>, << "." >>, << "a", "-", "b" >>, RaisingKeepSeparator}

InitKeep ==
  /\ originalCaption \in KeepCaptions
  /\ dropoutRate \in Rates
  /\ keepTokens \in KeepTokenCounts
  /\ keepTokensSeparator \in SpecialKeepSeparators
  /\ captionSeparator \in {StringSeparator(<< "," >>), ArraySeparator(<< << "," >> >>)}
  /\ steps = 0
  /\ InitCalls

SpecKeep == InitKeep /\ [][Next]_vars

(***************************************************************************)
(* The tokenizers as calls, for every short caption over a few characters  *)
(* and every list of at most two separators.                               *)
(***************************************************************************)
TokenChars == {"a", ",", ".", " "}

RECURSIVE TokenStringsOfLen(_)
TokenStringsOfLen(n) ==
  IF n = 0 THEN {<< >>}
  ELSE {<< c >> \o s : c \in TokenChars, s \in TokenStringsOfLen(n - 1)}

TokenCaptions == UNION {TokenStringsOfLen(n) : n \in 0..(MaxLen + 2)}

TokenSeparators == {<< >>, << "," >>, << "." >>, << ".", "," >>, << " " >>}

SeparatorLists ==
  {<< >>} \cup {<< s >> : s \in TokenSeparators}
    \cup {<< s, t >> : s \in TokenSeparators, t \in TokenSeparators}

InitTokens ==
  /\ originalCaption \in TokenCaptions
  /\ captionSeparator \in {ArraySeparator(l) : l \in SeparatorLists}
  /\ IdleArguments

NextTokens ==
  \/ CallSplitByMultipleSeparators
  \/ CallSplitWolfCaption

SpecTokens == InitTokens /\ [][NextTokens]_vars

(***************************************************************************)
(* Loading the captions in the visualizer component (src/unnamed/part_005).*)
(* A response of the server is [kind, files]: "networkError" (fetch        *)
(* rejects), "httpError" (a status that is not OK) or "ok" with the array  *)
(* of the caption files of the directory.  A caption file is [folder,      *)
(* fileName].                                                              *)
(***************************************************************************)
\* the number of loadCaptions invocations of a behaviour
MaxLoads == 3
\* the largest number of caption files of a directory
MaxFiles == 2

Paths == {DefaultPath, "/other"}

\* the caption files of a directory with n files
FilesOf(path, n) == [k \in 1..n |-> [folder |-> path, fileName |-> k]]

Failures == {"networkError", "httpError"}
Responses(path) ==
  {[kind |-> f, files |-> << >>] : f \in Failures}
    \cup {[kind |-> "ok", files |-> FilesOf(path, n)] : n \in 0..MaxFiles}

NoFilesMessage == "No caption files found in the specified path"
FailedMessage(message) == "Failed to load captions: " \o message

\* fetchCaptionFiles: every error is caught and logged, and [] is returned
fetchCaptionFiles(response) ==
  IF response.kind \in Failures
  THEN [rejected |-> FALSE, value |-> << >>, message |-> ""]
  ELSE [rejected |-> FALSE, value |-> response.files, message |-> ""]

\* loadCaptions up to its await, the dataset path being path: the fetch of
\* invocation id is in flight
loadCaptionsStart(id, path) ==
  /\ signals' = [signals EXCEPT !.datasetPath = path, !.isLoading = TRUE, !.error = ""]
  /\ fetches' = Append(fetches, [id |-> id, path |-> path])

\* the signals after the try block ran with the result of the fetch; the
\* effect that tracks selectedCaption() clears the results when it is set
loaded(result) ==
  IF result = << >>
  THEN [signals EXCEPT !.captions = result, !.currentPage = 1, !.isLoading = FALSE,
                       !.error = NoFilesMessage]
  ELSE [signals EXCEPT !.captions = result, !.currentPage = 1, !.isLoading = FALSE,
                       !.selectedCaption = result[1],
                       !.dropoutResults = << >>, !.showStats = FALSE]

\* loadCaptions after its await
loadCaptionsResume(settled) ==
  IF settled.rejected
  THEN [signals EXCEPT !.isLoading = FALSE, !.error = FailedMessage(settled.message)]
  ELSE loaded(settled.value)

\* the invocations started so far
started == IF lastEvent = NoEvent THEN 0 ELSE lastEvent.id

\* createEffect(() => loadCaptions()) when the component mounts
Mount ==
  /\ lastEvent = NoEvent
  /\ loadCaptionsStart(1, signals.datasetPath)
  /\ lastEvent' = [name |-> "mount", id |-> 1, response |-> "none"]
  /\ UNCHANGED << args, mathRandom, ret, prev >>

\* onInput of the dataset path: the effect reads datasetPath() and runs again
InputDatasetPath ==
  /\ lastEvent # NoEvent
  /\ started < MaxLoads
  /\ \E path \in Paths \ {signals.datasetPath} : loadCaptionsStart(started + 1, path)
  /\ lastEvent' = [name |-> "input", id |-> started + 1, response |-> "none"]
  /\ UNCHANGED << args, mathRandom, ret, prev >>

\* onClick of the button 'Load Captions', disabled while isLoading()
ClickLoadCaptions ==
  /\ lastEvent # NoEvent
  /\ started < MaxLoads
  /\ ~signals.isLoading
  /\ loadCaptionsStart(started + 1, signals.datasetPath)
  /\ lastEvent' = [name |-> "click", id |-> started + 1, response |-> "none"]
  /\ UNCHANGED << args, mathRandom, ret, prev >>

\* the fetch of an invocation settles and the invocation runs to its end
FetchSettles ==
  /\ \E i \in 1..Len(fetches) :
       \E response \in Responses(fetches[i].path) :
         /\ signals' = loadCaptionsResume(fetchCaptionFiles(response))
         /\ fetches' = SubSeq(fetches, 1, i - 1) \o SubSeq(fetches, i + 1, Len(fetches))
         /\ lastEvent' = [name |-> "settled", id |-> started, response |-> response.kind]
  /\ UNCHANGED << args, mathRandom, ret, prev >>

\* onClick of a caption of the list; the effect that tracks selectedCaption()
\* clears the results
SelectCaption ==
  /\ lastEvent # NoEvent
  /\ \E k \in 1..Len(signals.captions) :
       /\ signals.selectedCaption # signals.captions[k]
       /\ signals' = [signals EXCEPT !.selectedCaption = signals.captions[k],
                                      !.dropoutResults = << >>, !.showStats = FALSE]
  /\ lastEvent' = [name |-> "select", id |-> started, response |-> "none"]
  /\ UNCHANGED << args, mathRandom, ret, prev, fetches >>

InitLoad ==
  /\ originalCaption = << >>
  /\ captionSeparator = ArraySeparator(<< << "," >> >>)
  /\ IdleArguments

NextLoad ==
  \/ Mount
  \/ InputDatasetPath
  \/ ClickLoadCaptions
  \/ FetchSettles
  \/ SelectCaption

SpecLoad == InitLoad /\ [][NextLoad]_vars

(***************************************************************************)
(* The results and the step navigation of the visualizer component         *)
(* (src/unnamed/part_005).  The settings of the component that the         *)
(* transforms take are the arguments of the calls: dropoutRate(),          *)
(* keepTokens(), keepTokensSeparator(), captionSeparators(), the seed      *)
(* value, and stepCount() is steps.                                        *)
(***************************************************************************)
\* the step count of the component as createSignal leaves it
DefaultStepCount == 50

\* the caption of the k-th caption file of a directory
captionOfFile(file) ==
  IF file.fileName = 1 THEN << "a", ",", "b" >> ELSE << "b", ",", "a", ",", "b" >>

\* the step counts typed into 'Number of Steps'
StepCounts == 0..(MaxSteps + 1)

\* let caption = selectedCaption()!.caption;
\* if (useWolfCaptions()) caption = processWolfCaption(caption)
preprocessed(file) ==
  IF signals.useWolfCaptions THEN processWolfCaption(captionOfFile(file))
  ELSE captionOfFile(file)

\* the switch on operationType() of handleDropoutVisualization
visualized(caption) ==
  CASE signals.operationType = "shuffle" ->
         simulateShuffleSteps(caption, steps, keepTokens, keepTokensSeparator,
                              captionSeparator, seed, mathRandom)
    [] signals.operationType = "both" ->
         simulateBothOperationsSteps(caption, dropoutRate, steps, keepTokens,
                                     keepTokensSeparator, captionSeparator, seed,
                                     mathRandom)
    [] OTHER ->
         simulateDropoutSteps(caption, dropoutRate, steps, keepTokens,
                              keepTokensSeparator, captionSeparator, seed, mathRandom)

\* setDropoutResults(results); setShowStats(true), unless the call raised
showResults(results, used) ==
  IF results = ThrownArray
  THEN UNCHANGED << signals, mathRandom >>
  ELSE /\ signals' = [signals EXCEPT !.dropoutResults = results, !.showStats = TRUE]
       /\ mathRandom' = advance(mathRandom, used)

\* an event handler of the mounted component that starts no load ran
handled(name) ==
  /\ lastEvent' = [name |-> "handled", id |-> started, response |-> "none"]
  /\ UNCHANGED << args, ret, prev, fetches >>

\* onClick of 'Visualize ... Steps', disabled while no caption is selected;
\* explored for the step counts of StepCounts
HandleDropoutVisualization ==
  /\ lastEvent # NoEvent
  /\ signals.selectedCaption # NullCaption
  /\ steps \in StepCounts
  /\ LET r == visualized(preprocessed(signals.selectedCaption))
     IN  showResults(r.values, r.used)
  /\ handled("visualize")

\* onClick of 'Run Single ...', disabled while no caption is selected
HandleSingleOperation ==
  /\ lastEvent # NoEvent
  /\ signals.selectedCaption # NullCaption
  /\ LET r == transform(signals.operationType, preprocessed(signals.selectedCaption),
                        dropoutRate, keepTokens, keepTokensSeparator,
                        captionSeparator, seed, mathRandom)
     IN  showResults(IF r.value = Thrown THEN ThrownArray ELSE << r.value >>, r.used)
  /\ handled("single")

\* onInput of 'Number of Steps': setStepCount(parseInt(e.target.value))
InputStepCount ==
  /\ lastEvent # NoEvent
  /\ \E n \in StepCounts \ {steps} : steps' = n
  /\ lastEvent' = [name |-> "handled", id |-> started, response |-> "none"]
  /\ UNCHANGED << originalCaption, dropoutRate, keepTokens, keepTokensSeparator,
                  captionSeparator, seed, mathRandom, ret, prev, signals, fetches >>

\* onClick of an operation type button: setOperationType(...)
SelectOperationType ==
  /\ lastEvent # NoEvent
  /\ \E type \in {"dropout", "shuffle", "both"} \ {signals.operationType} :
       signals' = [signals EXCEPT !.operationType = type]
  /\ UNCHANGED mathRandom
  /\ handled("operationType")

\* onClick of the Wolf Captions buttons: setUseWolfCaptions(...)
ToggleWolfCaptions ==
  /\ lastEvent # NoEvent
  /\ signals' = [signals EXCEPT !.useWolfCaptions = ~@]
  /\ UNCHANGED mathRandom
  /\ handled("wolfCaptions")

\* the step navigation is rendered: <Show when={dropoutResults().length > 0}>
paginationShown == lastEvent # NoEvent /\ Len(signals.dropoutResults) > 0

\* setCurrentStep(step) by a control of the step navigation
stepSet(name, step) ==
  /\ signals' = [signals EXCEPT !.currentStep = step]
  /\ UNCHANGED mathRandom
  /\ handled(name)

\* Math.max(a, b)
Max(a, b) == IF a > b THEN a ELSE b

\* 'First', disabled when currentStep() === 0: setCurrentStep(0)
ClickFirst ==
  /\ paginationShown
  /\ signals.currentStep # 0
  /\ stepSet("first", 0)

\* '< Prev', disabled when currentStep() === 0: s => Math.max(0, s - 1)
ClickPrev ==
  /\ paginationShown
  /\ signals.currentStep # 0
  /\ stepSet("prev", Max(0, signals.currentStep - 1))

\* 'Next >', disabled at the last step: s => Math.min(length - 1, s + 1)
ClickNext ==
  /\ paginationShown
  /\ signals.currentStep # Len(signals.dropoutResults) - 1
  /\ stepSet("next", Min(Len(signals.dropoutResults) - 1, signals.currentStep + 1))

\* 'Last', disabled at the last step: setCurrentStep(length - 1)
ClickLast ==
  /\ paginationShown
  /\ signals.currentStep # Len(signals.dropoutResults) - 1
  /\ stepSet("last", Len(signals.dropoutResults) - 1)

\* onInput of the step field: a number from 1 to the number of results sets
\* the step, any other input is ignored
InputStep ==
  /\ paginationShown
  /\ \E val \in 0..(MaxSteps + 2) :
       IF val >= 1 /\ val <= Len(signals.dropoutResults)
       THEN stepSet("step", val - 1)
       ELSE /\ UNCHANGED << signals, mathRandom >>
            /\ handled("step")

\* the component before it mounts, with the settings as createSignal leaves
\* them; the seed is not used
InitSteps ==
  /\ originalCaption = << >>
  /\ dropoutRate = 2
  /\ keepTokens = 1
  /\ keepTokensSeparator = TagSeparator
  /\ captionSeparator = ArraySeparator(<< << "," >> >>)
  /\ steps = DefaultStepCount
  /\ seed = Undefined
  /\ mathRandom = MathRandom(0)
  /\ ret = NoCall
  /\ prev = NoCall
  /\ Unmounted

NextSteps ==
  \/ Mount
  \/ FetchSettles
  \/ SelectCaption
  \/ HandleDropoutVisualization
  \/ HandleSingleOperation
  \/ InputStepCount
  \/ SelectOperationType
  \/ ToggleWolfCaptions
  \/ ClickFirst
  \/ ClickPrev
  \/ ClickNext
  \/ ClickLast
  \/ InputStep

SpecSteps == InitSteps /\ [][NextSteps]_vars

(***************************************************************************)
(* Properties.                                                             *)
(***************************************************************************)
SingleShots == {"applyCaptionDropout", "shuffleCaption", "applyBothDropoutAndShuffle"}
Simulators ==
  {"simulateDropoutSteps", "simulateShuffleSteps", "simulateBothOperationsSteps"}

\* the last call was a call of fn that returned a string
ReturnedBy(fn) == ret.fn = fn /\ ret.value # Thrown

\* the tokens of the caption and of the returned string
inputTokens == tokenize(originalCaption, captionSeparator)
outputTokens == tokenize(ret.value, captionSeparator)

\* the keep marker occurs in the caption
markerPresent ==
  keepTokensSeparator # << >> /\ includes(originalCaption, keepTokensSeparator)

\* the positions of the first and of the second marker (0: none)
firstMarker == indexOf(originalCaption, keepTokensSeparator, 1)
secondMarker ==
  indexOf(originalCaption, keepTokensSeparator, firstMarker + Len(keepTokensSeparator))

\* the tokens before the first marker and after the second marker
fixedPrefix ==
  tokenize(SubSeq(originalCaption, 1, firstMarker - 1), captionSeparator)
fixedSuffix ==
  IF secondMarker = 0 THEN << >>
  ELSE tokenize(SubSeq(originalCaption, secondMarker + Len(keepTokensSeparator),
                       Len(originalCaption)), captionSeparator)

\* the number of occurrences of t in the sequence s
Count(s, t) == Cardinality({i \in 1..Len(s) : s[i] = t})

\* s and t have the same elements with the same multiplicities
SameBag(s, t) ==
  Len(s) = Len(t) /\ \A i \in 1..Len(s) : Count(s, s[i]) = Count(t, s[i])

RECURSIVE IsSubsequence(_, _)
\* s is obtained from t by removing elements
IsSubsequence(s, t) ==
  IF s = << >> THEN TRUE
  ELSE IF t = << >> THEN FALSE
  ELSE IF Head(s) = Head(t) THEN IsSubsequence(Tail(s), Tail(t))
  ELSE IsSubsequence(s, Tail(t))

\* the tokens of the caption that dropout protects
protectedTokens ==
  SelectSeq(inputTokens,
            LAMBDA t : isProtected(t, dropoutTokensToKeep(originalCaption, keepTokens,
                                                          keepTokensSeparator)))

\* C1: with a seed, two successive calls of the same function with the same
\* arguments return the same string (single-shot transforms) and the same
\* sequence of strings, element by element (step simulators)
C1_Determinism ==
  (seed.defined /\ prev.fn # "none") =>
    /\ ret.value = prev.value
    /\ Len(ret.values) = Len(prev.values)
    /\ \A i \in 1..Len(ret.values) : ret.values[i] = prev.values[i]

\* a seeded simulator was called twice and its steps gave different results
C1_Witness ==
  /\ seed.defined
  /\ prev.fn = "simulateBothOperationsSteps"
  /\ ret.fn = "simulateBothOperationsSteps"
  /\ Len(ret.values) = 2
  /\ ret.values[1] # ret.values[2]
  /\ ret.values[1] # originalCaption

\* C2: a step simulator returns exactly min(steps, 1000) results, 1000 for
\* steps = 5000, and never more than 1000
C2_StepCap ==
  ret.fn \in Simulators =>
    /\ Len(ret.values) = (IF steps < 1000 THEN steps ELSE 1000)
    /\ Len(ret.values) <= 1000
    /\ steps = 5000 => Len(ret.values) = 1000

\* 5000 steps were requested and 1000 results returned
C2_Witness ==
  /\ ret.fn = "simulateBothOperationsSteps"
  /\ steps = 5000
  /\ Len(ret.values) = 1000

\* C3: when keepTokens > 0, the caption has no keep marker and at least
\* keepTokens tokens, the first keepTokens tokens of the output of
\* applyCaptionDropout and of shuffleCaption are the first keepTokens tokens
\* of the caption, in the same order
C3_KeepCount ==
  ((ReturnedBy("applyCaptionDropout") \/ ReturnedBy("shuffleCaption"))
     /\ keepTokens > 0 /\ ~markerPresent /\ Len(inputTokens) >= keepTokens) =>
    /\ Len(outputTokens) >= keepTokens
    /\ \A i \in 1..keepTokens : outputTokens[i] = inputTokens[i]

\* C4: when the keep marker occurs in the caption, every token of the segment
\* before its first occurrence is in the output of applyCaptionDropout,
\* whatever the rate and keepTokens; "fixed ||| a, b, c" with marker "|||" and
\* rate 1 gives "fixed"
C4_MarkerKeep ==
  (ReturnedBy("applyCaptionDropout") /\ markerPresent) =>
    /\ \A i \in 1..Len(fixedPrefix) :
         \E j \in 1..Len(outputTokens) : outputTokens[j] = fixedPrefix[i]
    /\ (/\ originalCaption = << "f", "i", "x", "e", "d", " ", "|", "|", "|", " ",
                               "a", ",", " ", "b", ",", " ", "c" >>
        /\ keepTokensSeparator = << "|", "|", "|" >>
        /\ dropoutRate = RngRes)
       => ret.value = << "f", "i", "x", "e", "d" >>

\* C5: when the keep marker occurs in the caption, the tokens before the first
\* marker and the tokens after the second marker are in the output of
\* shuffleCaption at the token index they have in the caption
C5_FixedTokensStay ==
  (ReturnedBy("shuffleCaption") /\ markerPresent
     /\ Len(outputTokens) = Len(inputTokens)) =>
    /\ \A i \in 1..Len(fixedPrefix) :
         (i <= Len(inputTokens) /\ inputTokens[i] = fixedPrefix[i])
           => outputTokens[i] = inputTokens[i]
    /\ \A i \in 1..Len(fixedSuffix) :
         LET k == Len(inputTokens) - Len(fixedSuffix) + i
         IN  (k >= 1 /\ inputTokens[k] = fixedSuffix[i])
               => outputTokens[k] = inputTokens[k]

\* C6: the tokens of the output of shuffleCaption are the tokens of the
\* caption, with the same multiplicities
C6_ShufflePermutes ==
  ReturnedBy("shuffleCaption") => SameBag(outputTokens, inputTokens)

\* C7: the token sequence of the output of applyCaptionDropout is a
\* subsequence of the token sequence of the caption
C7_DropoutOnlyRemoves ==
  ReturnedBy("applyCaptionDropout") => IsSubsequence(outputTokens, inputTokens)

\* C8: with dropoutRate = 0, applyCaptionDropout returns all the tokens of the
\* caption, whatever the generator returns
C8_RateZeroKeepsAll ==
  (ReturnedBy("applyCaptionDropout") /\ dropoutRate = 0) =>
    ret.value = join(inputTokens, primarySeparator(captionSeparator))

\* C9: with dropoutRate >= 1, applyCaptionDropout raises no exception and
\* returns exactly the protected tokens, the empty string when no token is
\* protected
C9_RateOneDropsAll ==
  (ret.fn = "applyCaptionDropout" /\ dropoutRate >= RngRes) =>
    /\ ret.value # Thrown
    /\ ret.value = join(protectedTokens, primarySeparator(captionSeparator))
    /\ protectedTokens = << >> => ret.value = << >>

\* at rate 1 a protected token was returned and another token was dropped
C9_Witness ==
  /\ ret.fn = "applyCaptionDropout"
  /\ dropoutRate >= RngRes
  /\ ret.value # << >>
  /\ Len(outputTokens) < Len(inputTokens)

\* C10: when no token is dropped, applyCaptionDropout rejoins the tokens with
\* the primary separator followed by a space, so a caption in that form
\* ("a, b, c, d" with separator ",", rate 0, keepTokens 0) is returned unchanged
C10_JoinRoundTrip ==
  (ReturnedBy("applyCaptionDropout")
     /\ originalCaption = join(inputTokens, primarySeparator(captionSeparator) \o << " " >>)
     /\ Len(outputTokens) = Len(inputTokens)) =>
    ret.value = originalCaption

\* C11: for a caption that is empty or consists of white space only,
\* applyCaptionDropout, shuffleCaption, applyBothDropoutAndShuffle and
\* processWolfCaption return the empty string for every configuration (none
\* raises), and splitByMultipleSeparators and splitWolfCaption return the
\* empty array
C11_EmptyCaption ==
  (ret # NoCall /\ trim(originalCaption) = << >>) =>
    /\ ret.value = << >>
    /\ ret.values = << >>

\* a transform was called on a caption of white space with a keep separator
\* that no regular expression can be built from, and returned the empty string
C11_Witness ==
  /\ originalCaption # << >>
  /\ trim(originalCaption) = << >>
  /\ ret.fn \in SingleShots
  /\ keepRegexRaises(keepTokens, keepTokensSeparator)
  /\ ret.value = << >>

\* C12: for every caption and every configuration, whatever the keep
\* separator is (regex metacharacters, or a character such as '-' that is
\* special inside a character class) and with keepTokens > 0,
\* applyCaptionDropout and shuffleCaption return a string and never raise
C12_Totality ==
  ret.fn \in {"applyCaptionDropout", "shuffleCaption"} => ret.value # Thrown

\* lower-case letters of the wolf captions
LowerCase == {"a", "m", "x"}

\* C13: processWolfCaption inserts no ',' after the period of a listed
\* abbreviation or of a decimal number that does not end a sentence: in a
\* caption without tag prefix, an abbreviation followed by a space and a
\* lower-case letter ("U.S.A. near") and a decimal number ("5.5") are found
\* unchanged in the output
C13_AbbreviationsKept ==
  (ReturnedBy("processWolfCaption") /\ ~includes(originalCaption, TagSeparator)) =>
    /\ \A i \in 1..Len(commonAbbreviations), c \in LowerCase :
         includes(originalCaption, commonAbbreviations[i] \o << " ", c >>) =>
           includes(ret.value, commonAbbreviations[i] \o << " ", c >>)
    /\ \A d \in Digits, e \in Digits :
         includes(originalCaption, << d, ".", e >>) => includes(ret.value, << d, ".", e >>)

\* a text of sentences separated by ". " that ends with a period: no tag
\* prefix, no sentence is blank, and no ". " is the end of an abbreviation
IsSentenceText(text) ==
  /\ ~includes(text, TagSeparator)
  /\ endsWithPeriod(text)
  /\ \A k \in 1..Len(split(text, << ".", " " >>)) :
       trim(split(text, << ".", " " >>)[k]) # << >>
  /\ \A i \in 1..Len(commonAbbreviations) :
       ~includes(text, commonAbbreviations[i] \o << " " >>)

\* C14: for a text of sentences separated by ". " and ending with a period,
\* processWolfCaption replaces each sentence-terminating period, the final
\* one included, by ".," and adds nothing else; a text that ends with a listed
\* abbreviation ("a.m.") ends with the abbreviation and one ',' ("a.m.,")
C14_SentenceBoundaries ==
  (ReturnedBy("processWolfCaption") /\ IsSentenceText(originalCaption)) =>
    ret.value =
      join(split(originalCaption, << ".", " " >>), << ".", ",", " " >>) \o << "," >>

\* the position of the first "|||" of the caption
firstTag == indexOf(originalCaption, TagSeparator, 1)

\* C15: when the caption contains "|||", the output of processWolfCaption is
\* the caption up to and including the first "|||", character for character,
\* followed by the rewrite of the remainder with its original spacing
C15_TagPrefixUntouched ==
  (ReturnedBy("processWolfCaption") /\ includes(originalCaption, TagSeparator)) =>
    ret.value =
      SubSeq(originalCaption, 1, firstTag + Len(TagSeparator) - 1)
        \o rewriteDescription(SubSeq(originalCaption, firstTag + Len(TagSeparator),
                                     Len(originalCaption)))

RECURSIVE referenceScan(_, _, _, _)
\* the pieces of s from position p on, piece being the piece read so far: a
\* piece ends where the separator occurs, and the scan goes on behind it
referenceScan(s, sep, p, piece) ==
  IF p > Len(s) THEN << piece >>
  ELSE IF MatchesAt(s, sep, p)
       THEN << piece >> \o referenceScan(s, sep, p + Len(sep), << >>)
       ELSE referenceScan(s, sep, p + 1, Append(piece, s[p]))

\* splitting on a literal substring; the empty separator yields the characters
referenceSplit(s, sep) ==
  IF sep = << >> THEN [i \in 1..Len(s) |-> SubSeq(s, i, i)]
  ELSE referenceScan(s, sep, 1, << >>)

RECURSIVE referenceFlatten(_, _)
referenceFlatten(pieces, sep) ==
  IF pieces = << >> THEN << >>
  ELSE referenceSplit(pieces[1], sep) \o referenceFlatten(Tail(pieces), sep)

RECURSIVE referencePieces(_, _)
\* start from [caption]; split every piece on each separator in list order
referencePieces(caption, separators) ==
  IF separators = << >> THEN << caption >>
  ELSE referenceFlatten(
         referencePieces(caption, SubSeq(separators, 1, Len(separators) - 1)),
         separators[Len(separators)])

\* the piece without the white space at its ends
referenceTrim(piece) ==
  IF \A i \in 1..Len(piece) : IsWhitespace(piece[i]) THEN << >>
  ELSE SubSeq(piece,
              CHOOSE i \in 1..Len(piece) :
                ~IsWhitespace(piece[i]) /\ \A k \in 1..(i - 1) : IsWhitespace(piece[k]),
              CHOOSE j \in 1..Len(piece) :
                ~IsWhitespace(piece[j]) /\ \A k \in (j + 1)..Len(piece) : IsWhitespace(piece[k]))

RECURSIVE referenceClean(_)
\* every piece trimmed, the empty ones dropped
referenceClean(pieces) ==
  IF pieces = << >> THEN << >>
  ELSE (IF referenceTrim(pieces[1]) = << >> THEN << >> ELSE << referenceTrim(pieces[1]) >>)
         \o referenceClean(Tail(pieces))

referenceTokens(caption, separators) ==
  referenceClean(referencePieces(caption,
                   IF separators = << >> THEN << << "," >> >> ELSE separators))

\* C16: splitByMultipleSeparators returns the sequence obtained by starting
\* from [caption], splitting every piece on each separator in list order and
\* flattening, then trimming each piece and dropping the empty ones; an empty
\* list of separators behaves as [","]; no returned token is empty or begins
\* or ends with white space
C16_TokenizerReference ==
  ret.fn = "splitByMultipleSeparators" =>
    /\ ret.values = referenceTokens(originalCaption, captionSeparator.list)
    /\ \A i \in 1..Len(ret.values) :
         /\ ret.values[i] # << >>
         /\ ~IsWhitespace(ret.values[i][1])
         /\ ~IsWhitespace(ret.values[i][Len(ret.values[i])])

\* a piece produced by the first separator was split by the second one, and
\* a piece was trimmed and an empty one dropped
C16_Witness ==
  /\ ret.fn = "splitByMultipleSeparators"
  /\ captionSeparator.list = << << "," >>, << "." >> >>
  /\ originalCaption = << " ", "a", ",", "." >>
  /\ ret.values = << << "a" >> >>

\* the characters of a string
charsOf(s) == {s[i] : i \in 1..Len(s)}

\* the tokens for the two separators of the call in the other order
swappedTokens ==
  splitByMultipleSeparators(originalCaption,
    << captionSeparator.list[2], captionSeparator.list[1] >>)

\* C20 as stated: for every caption and every two separators s1, s2 the
\* tokens for [s1, s2] are the tokens for [s2, s1], also when one separator is
\* a substring of the other ("," and ".,")
C20_OrderIrrelevant ==
  (ret.fn = "splitByMultipleSeparators" /\ Len(captionSeparator.list) = 2) =>
    ret.values = swappedTokens

\* C20 as amended: for every caption and every two non-empty separators that
\* have no character in common, the tokens for [s1, s2] are the tokens for
\* [s2, s1]
C20_OrderIrrelevantDisjoint ==
  (/\ ret.fn = "splitByMultipleSeparators"
   /\ Len(captionSeparator.list) = 2
   /\ captionSeparator.list[1] # << >>
   /\ captionSeparator.list[2] # << >>
   /\ charsOf(captionSeparator.list[1]) \cap charsOf(captionSeparator.list[2]) = {}) =>
    ret.values = swappedTokens

\* both separators occur in the caption and both split it
C20_Witness ==
  /\ ret.fn = "splitByMultipleSeparators"
  /\ captionSeparator.list = << << "," >>, << "." >> >>
  /\ originalCaption = << "a", ",", ".", "a" >>
  /\ ret.values = << << "a" >>, << "a" >> >>

\* the sub-seed scaled from the k-th draw of a stream seeded with the seed
subSeed(k) ==
  Seeded((rngDraw(seedrandom(toString(seed.value)), k) * 1000000) \div RngRes)

\* applyCaptionDropout with the seed dropoutSeed
droppedWith(dropoutSeed) ==
  applyCaptionDropout(originalCaption, dropoutRate, keepTokens, keepTokensSeparator,
                      captionSeparator, dropoutSeed, mathRandom).value

\* shuffleCaption(applyCaptionDropout(caption, ..., dropoutSeed), ..., shuffleSeed)
composed(dropoutSeed, shuffleSeed) ==
  shuffleCaption(droppedWith(dropoutSeed), keepTokens, keepTokensSeparator,
                 captionSeparator, shuffleSeed, mathRandom).value

kindOf(fn) ==
  CASE fn = "simulateDropoutSteps" -> "dropout"
    [] fn = "simulateShuffleSteps" -> "shuffle"
    [] fn = "simulateBothOperationsSteps" -> "both"

\* the single-shot transform of the simulator that was called, run with the
\* seed seedOfStep
singleShot(seedOfStep) ==
  transform(kindOf(ret.fn), originalCaption, dropoutRate, keepTokens,
            keepTokensSeparator, captionSeparator, seedOfStep, mathRandom).value

C19_FailureReported ==
  (lastEvent.name = "settled" /\ lastEvent.response \in Failures) =>
    /\ signals.error # ""
    /\ signals.error # NoFilesMessage

\* the token contains one of the texts kept by the markers
exempt(token, keeps) == \E n \in 1..Len(keeps) : includes(token, keeps[n])

\* the number of tokens among the first i that are not exempt
flexibleUpTo(tokens, keeps, i) ==
  Cardinality({p \in 1..i : ~exempt(tokens[p], keeps)})

\* the indexes of the tokens that stay when the n-th token that is not exempt
\* is decided by the n-th value of rng
stayingIndexes(tokens, keeps, rate, rng) ==
  SelectSeq([i \in 1..Len(tokens) |-> i],
            LAMBDA i : \/ exempt(tokens[i], keeps)
                       \/ rngDraw(rng, flexibleUpTo(tokens, keeps, i)) > rate)

\* the tokens at these indexes
stayingTokens(tokens, indexes) == [n \in 1..Len(indexes) |-> tokens[indexes[n]]]

\* the texts kept by the markers of the caption
markedTexts == dropoutTokensToKeep(originalCaption, keepTokens, keepTokensSeparator)

\* C21: a call of applyCaptionDropout that returns draws rng once for each
\* token that is not protected, in the order of the tokens, and never for a
\* protected token: the n-th such token stays exactly when the n-th value of
\* rng is above the rate, the number of draws is the number of such tokens,
\* and without a seed Math.random has advanced by that number
C21_DrawOrder ==
  [][(CallApplyCaptionDropout /\ ret'.value # Thrown) =>
       /\ ret'.value =
            join(stayingTokens(inputTokens,
                               stayingIndexes(inputTokens, markedTexts, dropoutRate,
                                              makeRng(seed, mathRandom))),
                 primarySeparator(captionSeparator))
       /\ applyCaptionDropout(originalCaption, dropoutRate, keepTokens,
                              keepTokensSeparator, captionSeparator, seed,
                              mathRandom).draws
            = flexibleUpTo(inputTokens, markedTexts, Len(inputTokens))
       /\ ~seed.defined =>
            mathRandom' = advance(mathRandom,
                                  flexibleUpTo(inputTokens, markedTexts,
                                               Len(inputTokens)))]_vars

\* dropout without a seed returned a protected token and one of two tokens
\* that are not protected
C21_Witness ==
  /\ ret.fn = "applyCaptionDropout"
  /\ ~seed.defined
  /\ dropoutRate = 1
  /\ Len(inputTokens) = 3
  /\ flexibleUpTo(inputTokens, markedTexts, 3) = 2
  /\ Len(outputTokens) = 2

\* the index drawn at the t-th step of the shuffle of n tokens, where i = n - t
drawnIndex(rng, n, t) == (rngDraw(rng, t) * (n - t + 1)) \div RngRes

\* the reference procedure: for i from n-1 down to 1, swap the elements i and
\* j = floor(draw * (i+1)) (0-based) of arr; after[t] is arr after t swaps
referenceShuffle(arr, rng) ==
  LET n == Len(arr)
      after[t \in 0..(n - 1)] ==
        IF t = 0 THEN arr
        ELSE [p \in 1..n |->
                IF p = n - t + 1 THEN after[t - 1][drawnIndex(rng, n, t) + 1]
                ELSE IF p = drawnIndex(rng, n, t) + 1 THEN after[t - 1][n - t + 1]
                ELSE after[t - 1][p]]
  IN  IF n <= 1 THEN arr ELSE after[n - 1]

RECURSIVE referenceWriteBack(_, _, _, _)
\* the tokens from position p on: a pinned position holds its token, any
\* other position holds the next token of shuffled
referenceWriteBack(tokens, pinned, shuffled, p) ==
  IF p > Len(tokens) THEN << >>
  ELSE IF p \in pinned
       THEN << tokens[p] >> \o referenceWriteBack(tokens, pinned, shuffled, p + 1)
       ELSE << Head(shuffled) >>
              \o referenceWriteBack(tokens, pinned, Tail(shuffled), p + 1)

\* the positions that shuffleCaption pins
pinnedPositions ==
  keepPositions(originalCaption, inputTokens, keepTokens, keepTokensSeparator)

\* the tokens outside the pinned positions, in order
tokensOutside(tokens, pinned) ==
  LET idx == SelectSeq([i \in 1..Len(tokens) |-> i], LAMBDA i : i \notin pinned)
  IN  [n \in 1..Len(idx) |-> tokens[idx[n]]]

\* C22: a call of shuffleCaption that returns, with n tokens outside the
\* pinned positions, draws exactly max(0, n-1) values of rng, every drawn
\* index j = floor(draw * (i+1)) satisfies 0 <= j <= i, and the result is the
\* reference Fisher-Yates procedure applied to these n tokens, written back
\* to the positions that are not pinned, in order
C22_FisherYates ==
  [][(CallShuffleCaption /\ ret'.value # Thrown) =>
       LET rng == makeRng(seed, mathRandom)
           free == tokensOutside(inputTokens, pinnedPositions)
           n == Len(free)
           draws == IF n > 1 THEN n - 1 ELSE 0
       IN  /\ ret'.value =
                join(referenceWriteBack(inputTokens, pinnedPositions,
                                        referenceShuffle(free, rng), 1),
                     primarySeparator(captionSeparator))
           /\ \A t \in 1..draws :
                0 <= drawnIndex(rng, n, t) /\ drawnIndex(rng, n, t) <= n - t
           /\ shuffleCaption(originalCaption, keepTokens, keepTokensSeparator,
                             captionSeparator, seed, mathRandom).draws = draws
           /\ ~seed.defined => mathRandom' = advance(mathRandom, draws)]_vars

\* a seeded shuffle of four tokens returned them in another order
C22_Witness ==
  /\ ret.fn = "shuffleCaption"
  /\ seed.defined
  /\ Len(inputTokens) = 4
  /\ pinnedPositions = {}
  /\ outputTokens # inputTokens
  /\ SameBag(outputTokens, inputTokens)

\* the number of occurrences of sub in s
occurrences(s, sub) == Cardinality({p \in 1..Len(s) : MatchesAt(s, sub, p)})

\* C23: processWolfCaption leaves every period that is immediately followed by
\* a comma as it is, and its output contains ".,," or "..," only where the
\* caption does
C23_NoDoubleInsertion ==
  ret.fn = "processWolfCaption" =>
    /\ occurrences(ret.value, << ".", ",", "," >>)
         <= occurrences(originalCaption, << ".", ",", "," >>)
    /\ occurrences(ret.value, << ".", ".", "," >>)
         <= occurrences(originalCaption, << ".", ".", "," >>)
    /\ occurrences(ret.value, << ".", "," >>)
         >= occurrences(originalCaption, << ".", "," >>)

\* the list S is the list of separators of the call; S with ".," appended
\* unless it is one of its elements
withSentenceSeparator(S) ==
  IF << ".", "," >> \in {S[i] : i \in 1..Len(S)} THEN S ELSE S \o << << ".", "," >> >>

CallSimulator ==
  \/ CallSimulateDropoutSteps
  \/ CallSimulateShuffleSteps
  \/ CallSimulateBothOperationsSteps

\* the single-shot transform of a simulator kind, run on the arguments of the
\* call with the seed s and with Math.random in the state rnd
shot(kind, s, rnd) ==
  transform(kind, originalCaption, dropoutRate, keepTokens, keepTokensSeparator,
            captionSeparator, s, rnd)

\* a simulator of the kind run on the arguments of the call with the seed s
simulated(kind, s, rnd) ==
  stepLoop(kind, originalCaption, dropoutRate, keepTokens, keepTokensSeparator,
           captionSeparator, s, rnd, 0, safeStepCount(steps), baseSeedDraws(s)).values

\* without a seed: the calls of Math.random made before step i, one for the
\* base seed and those of the steps before i
drawnBefore(kind, rnd, n) ==
  LET before[i \in 0..n] ==
        IF i = 0 THEN 1
        ELSE before[i - 1] + shot(kind, Undefined, advance(rnd, before[i - 1])).used
  IN  before

\* C25: with a seed s, element i of the array a step simulator returns is the
\* single-shot transform called with the seed s + i, so element 0 is the
\* single-shot result for s, and element i+1 is element i of the run of the
\* same simulator with the seed s + 1; without a seed every step is the
\* single-shot transform called with an undefined seed
C25_SeedPlusIndex ==
  [][(CallSimulator /\ ret'.values # ThrownArray) =>
       LET kind == kindOf(ret'.fn)
           n == Len(ret'.values)
       IN  IF seed.defined
           THEN /\ \A i \in 0..(n - 1) :
                     ret'.values[i + 1]
                       = shot(kind, Seeded(seed.value + i), mathRandom).value
                /\ n > 0 => ret'.values[1] = shot(kind, seed, mathRandom).value
                /\ \A i \in 0..(n - 2) :
                     ret'.values[i + 2]
                       = simulated(kind, Seeded(seed.value + 1), mathRandom)[i + 1]
           ELSE /\ \A i \in 0..(n - 1) :
                     ret'.values[i + 1]
                       = shot(kind, Undefined,
                              advance(mathRandom, drawnBefore(kind, mathRandom, n)[i])).value
                /\ mathRandom' = advance(mathRandom, drawnBefore(kind, mathRandom, n)[n])]_vars

\* with a seed, two steps of dropout gave different results, neither of them
\* the caption
C25_Witness ==
  /\ ret.fn = "simulateDropoutSteps"
  /\ seed.defined
  /\ Len(ret.values) = 2
  /\ ret.values[1] # ret.values[2]
  /\ ret.values[2] # << >>
  /\ ret.values[2] = shot("dropout", Seeded(seed.value + 1), mathRandom).value

\* the token contains the trimmed text, not empty, of a span between two
\* keep markers of the caption, and keepTokens > 0
holdsMarkedText(token) ==
  /\ keepTokens > 0
  /\ keepTokensSeparator # << >>
  /\ \E n \in 1..Len(matchedSpans(originalCaption, keepTokensSeparator)) :
       /\ trim(matchedSpans(originalCaption, keepTokensSeparator)[n]) # << >>
       /\ includes(token, trim(matchedSpans(originalCaption, keepTokensSeparator)[n]))

\* C26: applyCaptionDropout exempts a token from dropout only if keepTokens > 0
\* and the token contains the trimmed text, not empty, of a span between two
\* keep markers: with a rate of 1 or more it returns exactly the tokens that
\* contain such a text, also when a span between two markers is white space
C26_RealMarkedSpan ==
  (ReturnedBy("applyCaptionDropout") /\ dropoutRate >= RngRes) =>
    ret.value = join(SelectSeq(inputTokens, holdsMarkedText),
                     primarySeparator(captionSeparator))

\* the characters of s that are not white space, in order
visible(s) == SelectSeq(s, LAMBDA c : ~IsWhitespace(c))

\* the characters of s other than ','
withoutCommas(s) == SelectSeq(s, LAMBDA c : c # ",")

\* C27: processWolfCaption only inserts: the characters of the caption that
\* are not white space are in its output in the same order, and the output
\* without its ',' is the caption without its ',', up to white space; also
\* for a caption with two or more "|||" and for a caption with an empty run
\* between two ". "
C27_OnlyInserts ==
  ret.fn = "processWolfCaption" =>
    /\ IsSubsequence(visible(originalCaption), visible(ret.value))
    /\ withoutCommas(visible(ret.value)) = withoutCommas(visible(originalCaption))

\* every element of s occurs in t at least as often as in s
SubBag(s, t) == \A i \in 1..Len(s) : Count(s, s[i]) <= Count(t, s[i])

\* C28: the tokens of the output of applyBothDropoutAndShuffle are tokens of
\* the caption, none more often than in the caption, for every separator
\* list, rate and seed
C28_NoInventedTokens ==
  ReturnedBy("applyBothDropoutAndShuffle") => SubBag(outputTokens, inputTokens)

\* C29: whenever the component shows results, the current step is the index
\* of one of them: 0 <= currentStep < dropoutResults.length
C29_StepIndexValid ==
  Len(signals.dropoutResults) > 0 =>
    /\ 0 <= signals.currentStep
    /\ signals.currentStep < Len(signals.dropoutResults)

\* C30: when the fetches of two loadCaptions invocations are in flight at the
\* same time, isLoading stays true until no fetch is in flight, and once both
\* have completed the captions and the selected caption are those of the
\* invocation started last: an invocation started earlier that completes
\* last leaves them as they are
C30_LatestLoadWins ==
  /\ [](fetches # << >> => signals.isLoading)
  /\ [][(/\ FetchSettles
         /\ started = 2
         /\ lastEvent.name = "settled"
         /\ Len(fetches) = 1
         /\ fetches[1].id < started) =>
          /\ signals'.captions = signals.captions
          /\ signals'.selectedCaption = signals.selectedCaption]_vars

====
